---- MODULE Spec2Model ----
(***************************************************************************)
(* State-machine model of src/stress-workload.c (stress-ng "workload"      *)
(* stressor): configuration validation, resource acquisition, the offset   *)
(* sampler, the slice executor, the busy-work kernels and the offset       *)
(* histogram.                                                              *)
(*                                                                         *)
(* Time.  The C code keeps time as a double in seconds and multiplies by   *)
(* 1e6 / 1e9 where it needs microseconds / nanoseconds.  The model keeps   *)
(* every time as an integer number of nanoseconds, so that the two sleep   *)
(* thresholds (10000.0 ns and 100.0 ns) are exact integer comparisons.     *)
(* Floating-point rounding is not modelled.                                *)
(*                                                                         *)
(* Not modelled: the contents of the scratch buffer and the value of the   *)
(* static volatile counter `val` (neither is read by any control flow).    *)
(***************************************************************************)
EXTENDS Integers, Sequences, FiniteSets

(* ------------------------------------------------------------------ *)
(* Program constants                                                    *)
(* ------------------------------------------------------------------ *)
NUM_BUCKETS == 20
STRESS_WORKLOAD_DIST_RANDOM1 == 1
STRESS_WORKLOAD_DIST_RANDOM2 == 2
STRESS_WORKLOAD_DIST_RANDOM3 == 3
STRESS_WORKLOAD_DIST_CLUSTER == 4
\* 1 us in ns: STRESS_DBL_NANOSECOND / STRESS_DBL_MICROSECOND
NsPerUs == 1000
\* if (sleep_duration_ns > 10000.0)
QuantumSleepThresholdNs == 10000
\* if (sleep_duration_ns > 100.0)
SliceSleepThresholdNs == 100
\* stress_mwc8modn(8), stress_mwc8modn(7)
NumKernels == 8
NumMixedKernels == 7

(* ------------------------------------------------------------------ *)
(* Bounds of the model                                                  *)
(* ------------------------------------------------------------------ *)
\* largest workload_slice_us of the whole-program specification
MaxUs == 2
\* the workload_slice_us of the slice-timing specification
SliceTimingUs == 24
\* stress_continue() is forced false after this many slices
MaxSlices == 2
\* largest slice_us of the sampler specification
MaxSampleUs == 6
\* largest quanta_us of the kernel specification
MaxKernelUs == 3
\* largest width basis (us) and number of account calls of the histogram specification
MaxBasisUs == 2
MaxAccounts == 2

VARIABLES
    pc,                  \* position of the single control flow
    workload_load,       \* settings read at lines 395-398
    workload_slice_us,
    workload_quanta_us,
    workload_dist,
    max_quanta,
    workload,            \* the quantum array (when_us), a sequence
    workload_mem,        \* "none" | "held" | "freed"   (calloc / free)
    buffer_mem,          \* "none" | "held" | "freed"   (mmap / munmap)
    frees,               \* number of free(workload) calls
    munmaps,             \* number of munmap(buffer) calls
    bucket,              \* slice_offset_bucket: [width, bucket, overflow]
    value,               \* last argument of stress_workload_bucket_account
    rows,                \* percentages computed by the last report (or <<>>)
    i,                   \* loop index of the sampler / quantum loop
    offset,              \* Cluster: offset
    now,                 \* the wall clock, ns
    t_begin, t_end,      \* stress_workload_exercise locals, ns
    run_duration,        \* run_duration_sec, in ns
    run_when,            \* run_when, ns
    sleep_duration_ns,
    slept,               \* whether the last sleep test called shim_nanosleep_uint64
    w_t_end,             \* stress_workload_waste_time: t_end, ns
    bogo,                \* stress_bogo_inc counter
    keep_running,        \* what stress_continue_flag() would answer
    slices,              \* number of completed stress_workload_exercise calls
    checks,              \* number of stress_continue evaluations
    ex_ret,              \* last return value of stress_workload_exercise
    ret                  \* return value of stress_workload

vars == << pc, workload_load, workload_slice_us, workload_quanta_us, workload_dist,
           max_quanta, workload, workload_mem, buffer_mem, frees, munmaps, bucket,
           value, rows, i, offset, now, t_begin, t_end, run_duration, run_when,
           sleep_duration_ns, slept, w_t_end, bogo, keep_running, slices, checks,
           ex_ret, ret >>

cfgVars == << workload_load, workload_slice_us, workload_quanta_us, workload_dist >>
memVars == << workload_mem, buffer_mem, frees, munmaps >>
exVars == << t_begin, t_end, run_duration, run_when, sleep_duration_ns, slept >>
envVars == << keep_running, slices, checks, ex_ret, ret >>

(* ------------------------------------------------------------------ *)
(* Environment: clock, sleep, PRNG                                      *)
(* ------------------------------------------------------------------ *)
\* A read of the clock returns some value not below the previous one.  The model
\* draws it from the instants that matter to the comparison the read feeds: the
\* clock has not moved, or it has moved to exactly `instant` or to just after it
\* (for a read that feeds no comparison, instant is the clock itself).
ClockEdges == { 0, 100 }
\* how long after the requested wake-up time a sleep may return
SleepJitter == {0, 100}

\* stress_mwc32modn(max): uniform in [0, max), and 0 when max < 2
Mwc32modn(max) == IF max < 2 THEN {0} ELSE 0 .. (max - 1)
\* stress_mwc8modn(max)
Mwc8modn(max) == IF max < 2 THEN {0} ELSE 0 .. (max - 1)

ClockReads(instant) ==
    { now } \cup { t \in { instant + e : e \in ClockEdges } : t >= now }

\* a read that only starts an interval: the model takes the clock not to have
\* moved since the read before it (the reads after it draw from ClockReads)
ClockSame == { now }

Dists == { STRESS_WORKLOAD_DIST_RANDOM1, STRESS_WORKLOAD_DIST_RANDOM2,
           STRESS_WORKLOAD_DIST_RANDOM3, STRESS_WORKLOAD_DIST_CLUSTER }

(* ------------------------------------------------------------------ *)
(* Offset histogram                                                     *)
(* ------------------------------------------------------------------ *)
\* bucket->width is kept in ns: (width_us / 20) us = width_us * 1000 / 20 ns
BucketInit(width_us) ==
    [ width    |-> (width_us * NsPerUs) \div NUM_BUCKETS,
      bucket   |-> [ k \in 0 .. (NUM_BUCKETS - 1) |-> 0 ],
      overflow |-> 0 ]

\* (ssize_t)(value / width): conversion truncates toward zero
TruncDiv(a, b) == IF a >= 0 THEN a \div b ELSE -((-a) \div b)

\* faulty variant: the clamp of a negative index to 0 left out
BucketIndexNoClamp(b, v) == TruncDiv(v, b.width)
\* i = (ssize_t)(value / bucket->width); if (i < 0) i = 0;
BucketIndex(b, v) ==
    LET idx == TruncDiv(v, b.width) IN IF idx < 0 THEN 0 ELSE idx

\* faulty variant: the counter assigned 1 instead of incremented
BucketAccountAssign(b, v) ==
    LET idx == BucketIndex(b, v) IN
    IF idx < NUM_BUCKETS
    THEN [ b EXCEPT !.bucket[idx] = 1 ]
    ELSE [ b EXCEPT !.overflow = 1 ]
\* if (i < NUM_BUCKETS) bucket->bucket[i]++; else bucket->overflow++;
BucketAccount(b, v) ==
    LET idx == BucketIndex(b, v) IN
    IF idx < NUM_BUCKETS
    THEN [ b EXCEPT !.bucket[idx] = @ + 1 ]
    ELSE [ b EXCEPT !.overflow = @ + 1 ]

RECURSIVE SumBuckets(_, _)
SumBuckets(b, k) == IF k = 0 THEN 0 ELSE b.bucket[k - 1] + SumBuckets(b, k - 1)

\* total = bucket->overflow + sum of bucket->bucket[]
BucketTotal(b) == b.overflow + SumBuckets(b, NUM_BUCKETS)

\* (double)100.0 * (double)count / (double)total, kept in tenths of a percent;
\* an IEEE division by zero yields NaN (0/0) or inf (x/0), it does not trap
Percent(count, total) ==
    IF total = 0 THEN [ finite |-> FALSE, tenths |-> 0 ]
    ELSE [ finite |-> TRUE, tenths |-> (1000 * count) \div total ]

\* the 21 percentages of stress_workload_bucket_report, overflow row last
BucketReport(b) ==
    LET total == BucketTotal(b) IN
    [ r \in 1 .. (NUM_BUCKETS + 1) |->
        IF r <= NUM_BUCKETS THEN Percent(b.bucket[r - 1], total)
        ELSE Percent(b.overflow, total) ]

(* ------------------------------------------------------------------ *)
(* Quantum scheduler: qsort with stress_workload_cmp                    *)
(* ------------------------------------------------------------------ *)
WorkloadCmp(when1, when2) ==
    IF when1 < when2 THEN -1 ELSE IF when1 > when2 THEN 1 ELSE 0

RECURSIVE Insert(_, _)
Insert(s, x) ==
    IF s = << >> THEN << x >>
    ELSE IF WorkloadCmp(x, Head(s)) <= 0 THEN << x >> \o s
    ELSE << Head(s) >> \o Insert(Tail(s), x)

RECURSIVE Qsort(_)
Qsort(s) == IF s = << >> THEN << >> ELSE Insert(Qsort(Tail(s)), Head(s))

(* ------------------------------------------------------------------ *)
(* Distribution sampler (stress_workload_exercise, the switch)          *)
(* ------------------------------------------------------------------ *)
\* workload_slice_us - workload_quanta_us.  Every uint32_t expression of the sampler
\* stays below 2^32: a slice is only run with quanta_us <= slice_us <= 10,000,000,
\* so the difference is not negative and a sum of three draws is below 30,000,000.
DrawRange == workload_slice_us - workload_quanta_us

Random1When(a) == a
\* faulty variant: the sum of the two draws not halved
Random2WhenNoHalve(a, b) == a + b
Random2When(a, b) == (a + b) \div 2
Random3When(a, b, c) == (a + b + c) \div 3
\* stress_mwc32modn(workload_quanta_us) + offset
ClusterWhen(draw, off) == draw + off
\* (max_quanta * 2) / 3
ClusterBurstCount == (max_quanta * 2) \div 3

(* ------------------------------------------------------------------ *)
(* stress_workload: validation and resources                            *)
(* ------------------------------------------------------------------ *)
\* faulty variant: quanta_us = slice_us rejected too
ConfigInvalidOrEqual == workload_quanta_us >= workload_slice_us
\* if (workload_quanta_us > workload_slice_us)
ConfigInvalid == workload_quanta_us > workload_slice_us

\* max_quanta = workload_slice_us / workload_quanta_us; if (max_quanta < 1) max_quanta = 1;
MaxQuantaOf(slice_us, quanta_us) ==
    LET q == slice_us \div quanta_us IN IF q < 1 THEN 1 ELSE q

Validate ==
    /\ pc = "start"
    /\ IF ConfigInvalid
       THEN /\ ret' = "EXIT_FAILURE"
            /\ pc' = "done"
            /\ UNCHANGED max_quanta
       ELSE /\ max_quanta' = MaxQuantaOf(workload_slice_us, workload_quanta_us)
            /\ pc' = "calloc"
            /\ UNCHANGED ret
    /\ UNCHANGED << cfgVars, workload, memVars, bucket, value, rows, i, offset, now,
                    exVars, w_t_end, bogo, keep_running, slices, checks, ex_ret >>

\* workload = calloc(max_quanta, sizeof(*workload))
CallocOk ==
    /\ pc = "calloc"
    /\ workload' = [ k \in 1 .. max_quanta |-> 0 ]
    /\ workload_mem' = "held"
    /\ pc' = "mmap"
    /\ UNCHANGED << cfgVars, max_quanta, buffer_mem, frees, munmaps, bucket, value,
                    rows, i, offset, now, exVars, w_t_end, bogo, envVars >>

CallocFail ==
    /\ pc = "calloc"
    /\ ret' = "EXIT_NO_RESOURCE"
    /\ pc' = "done"
    /\ UNCHANGED << cfgVars, max_quanta, workload, memVars, bucket, value, rows, i,
                    offset, now, exVars, w_t_end, bogo, keep_running, slices, checks,
                    ex_ret >>

MmapOk ==
    /\ pc = "mmap"
    /\ buffer_mem' = "held"
    /\ pc' = "bucket_init"
    /\ UNCHANGED << cfgVars, max_quanta, workload, workload_mem, frees, munmaps,
                    bucket, value, rows, i, offset, now, exVars, w_t_end, bogo,
                    envVars >>

\* what the mmap failure path leaves of the quantum array: (state, number of frees)
\* faulty variant: free(workload) left out
MmapFailLeak == << workload_mem, frees >>
\* free(workload)
MmapFailRelease == << "freed", frees + 1 >>

MmapFail ==
    /\ pc = "mmap"
    /\ workload_mem' = MmapFailRelease[1]
    /\ frees' = MmapFailRelease[2]
    /\ ret' = "EXIT_NO_RESOURCE"
    /\ pc' = "done"
    /\ UNCHANGED << cfgVars, max_quanta, workload, buffer_mem, munmaps, bucket, value,
                    rows, i, offset, now, exVars, w_t_end, bogo, keep_running, slices,
                    checks, ex_ret >>

\* where control goes after stress_workload_bucket_init: a do { } while loop
\* runs its body before its condition
\* faulty variant: a while loop, the condition first
LoopEntryWhile == "continue"
LoopEntry == "exercise"

\* stress_workload_bucket_init(&slice_offset_bucket, (double)workload_slice_us)
BucketInitCall ==
    /\ pc = "bucket_init"
    /\ bucket' = BucketInit(workload_slice_us)
    /\ pc' = LoopEntry
    /\ UNCHANGED << cfgVars, max_quanta, workload, memVars, value, rows, i, offset,
                    now, exVars, w_t_end, bogo, envVars >>

(* ------------------------------------------------------------------ *)
(* stress_workload_exercise                                             *)
(* ------------------------------------------------------------------ *)
ExerciseBegin ==
    /\ pc = "exercise"
    /\ \E t \in ClockSame :
         /\ now' = t
         /\ t_begin' = t
         /\ t_end' = t + workload_slice_us * NsPerUs
    \* quanta_us * 1e-6 * (load / 100.0) seconds = quanta_us * load * 10 ns
    /\ run_duration' = (workload_quanta_us * NsPerUs * workload_load) \div 100
    /\ i' = 0
    /\ pc' = IF workload_dist = STRESS_WORKLOAD_DIST_CLUSTER THEN "cluster_offset"
             ELSE "sample"
    /\ UNCHANGED << cfgVars, max_quanta, workload, memVars, bucket, value, rows,
                    offset, run_when, sleep_duration_ns, slept, w_t_end, bogo,
                    envVars >>

sampleUnchanged == << cfgVars, max_quanta, memVars, bucket, value, rows, now, exVars,
                      w_t_end, bogo, envVars >>

SampleRandom1 ==
    /\ pc = "sample"
    /\ workload_dist = STRESS_WORKLOAD_DIST_RANDOM1
    /\ i < max_quanta
    /\ \E a \in Mwc32modn(DrawRange) :
         workload' = [ workload EXCEPT ![i + 1] = Random1When(a) ]
    /\ i' = i + 1
    /\ UNCHANGED << pc, offset, sampleUnchanged >>

SampleRandom2 ==
    /\ pc = "sample"
    /\ workload_dist = STRESS_WORKLOAD_DIST_RANDOM2
    /\ i < max_quanta
    /\ \E a \in Mwc32modn(DrawRange), b \in Mwc32modn(DrawRange) :
         workload' = [ workload EXCEPT ![i + 1] = Random2When(a, b) ]
    /\ i' = i + 1
    /\ UNCHANGED << pc, offset, sampleUnchanged >>

SampleRandom3 ==
    /\ pc = "sample"
    /\ workload_dist = STRESS_WORKLOAD_DIST_RANDOM3
    /\ i < max_quanta
    /\ \E a \in Mwc32modn(DrawRange), b \in Mwc32modn(DrawRange),
          c \in Mwc32modn(DrawRange) :
         workload' = [ workload EXCEPT ![i + 1] = Random3When(a, b, c) ]
    /\ i' = i + 1
    /\ UNCHANGED << pc, offset, sampleUnchanged >>

\* offset = stress_mwc32modn(workload_slice_us / 2)
ClusterOffset ==
    /\ pc = "cluster_offset"
    /\ offset' \in Mwc32modn(workload_slice_us \div 2)
    /\ pc' = "cluster_burst"
    /\ UNCHANGED << workload, i, sampleUnchanged >>

\* for (i = 0; i < (max_quanta * 2) / 3; i++)
ClusterBurst ==
    /\ pc = "cluster_burst"
    /\ IF i < ClusterBurstCount
       THEN /\ \E draw \in Mwc32modn(workload_quanta_us) :
                 workload' = [ workload EXCEPT ![i + 1] = ClusterWhen(draw, offset) ]
            /\ i' = i + 1
            /\ UNCHANGED pc
       ELSE /\ pc' = "cluster_rest"
            /\ UNCHANGED << workload, i >>
    /\ UNCHANGED << offset, sampleUnchanged >>

\* for (; i < max_quanta; i++)
ClusterRest ==
    /\ pc = "cluster_rest"
    /\ i < max_quanta
    /\ \E a \in Mwc32modn(DrawRange) :
         workload' = [ workload EXCEPT ![i + 1] = a ]
    /\ i' = i + 1
    /\ UNCHANGED << pc, offset, sampleUnchanged >>

\* qsort(workload, max_quanta, sizeof(*workload), stress_workload_cmp)
SortQuanta ==
    /\ pc \in { "sample", "cluster_rest" }
    /\ ~ (i < max_quanta)
    /\ workload' = Qsort(workload)
    /\ pc' = "slice_start"
    /\ UNCHANGED << i, offset, sampleUnchanged >>

\* t_begin = stress_time_now(); t_end = t_begin + slice
SliceStart ==
    /\ pc = "slice_start"
    /\ \E t \in ClockSame :
         /\ now' = t
         /\ t_begin' = t
         /\ t_end' = t + workload_slice_us * NsPerUs
    /\ i' = 0
    /\ pc' = "q_wait"
    /\ UNCHANGED << cfgVars, max_quanta, workload, memVars, bucket, value, rows,
                    offset, run_duration, run_when, sleep_duration_ns, slept,
                    w_t_end, bogo, envVars >>

\* faulty variant: the continuation predicate consulted between quanta
QuantaLoopCondStop == i < max_quanta /\ keep_running
\* for (i = 0; i < max_quanta; i++)
QuantaLoopCond == i < max_quanta

\* faulty variant: a wait of exactly 10 us slept for
QuantumSleepTestGeq(ns) == ns >= QuantumSleepThresholdNs
\* if (sleep_duration_ns > 10000.0)
QuantumSleepTest(ns) == ns > QuantumSleepThresholdNs

\* if (sleep_duration_ns > 100.0)
SliceSleepTest(ns) == ns > SliceSleepThresholdNs

\* run_when, the sleep test and shim_nanosleep_uint64
QuantumWait ==
    /\ pc = "q_wait"
    /\ QuantaLoopCond
    /\ run_when' = t_begin + workload[i + 1] * NsPerUs
    /\ \E t \in ClockReads(run_when' - QuantumSleepThresholdNs) :
         LET ns == run_when' - t
         IN /\ sleep_duration_ns' = ns
            /\ IF QuantumSleepTest(ns)
               THEN /\ slept' = TRUE
                    /\ \E j \in SleepJitter : now' = t + ns + j
               ELSE /\ slept' = FALSE
                    /\ now' = t
    /\ pc' = "q_account"
    /\ UNCHANGED << cfgVars, max_quanta, workload, memVars, bucket, value, rows, i,
                    offset, t_begin, t_end, run_duration, w_t_end, bogo, envVars >>

\* stress_workload_bucket_account(slice_offset_bucket, 1e6 * (now - t_begin))
QuantumAccount ==
    /\ pc = "q_account"
    /\ \E t \in ClockReads(now) :
         /\ now' = t
         /\ value' = t - t_begin
         /\ bucket' = BucketAccount(bucket, t - t_begin)
    /\ pc' = IF run_duration > 0 THEN "waste" ELSE "q_bogo"
    /\ UNCHANGED << cfgVars, max_quanta, workload, memVars, rows, i, offset, exVars,
                    w_t_end, bogo, envVars >>

\* stress_bogo_inc(args); i++.  The callees have returned: their argument and
\* local (value, t_end of stress_workload_waste_time) are dead and read as 0.
QuantumBogo ==
    /\ pc = "q_bogo"
    /\ bogo' = bogo + 1
    /\ i' = i + 1
    /\ value' = 0
    /\ w_t_end' = 0
    /\ pc' = "q_wait"
    /\ UNCHANGED << cfgVars, max_quanta, workload, memVars, bucket, rows,
                    offset, now, exVars, envVars >>

\* the sleep to the end of the slice, and return EXIT_SUCCESS
SliceEnd ==
    /\ pc = "q_wait"
    /\ ~ QuantaLoopCond
    /\ \E t \in ClockReads(t_end - SliceSleepThresholdNs) :
         LET ns == t_end - t
         IN /\ sleep_duration_ns' = ns
            /\ IF SliceSleepTest(ns)
               THEN /\ slept' = TRUE
                    /\ \E j \in SleepJitter : now' = t + ns + j
               ELSE /\ slept' = FALSE
                    /\ now' = t
    /\ ex_ret' = "EXIT_SUCCESS"
    /\ slices' = slices + 1
    /\ pc' = "continue"
    /\ UNCHANGED << cfgVars, max_quanta, workload, memVars, bucket, value, rows, i,
                    offset, t_begin, t_end, run_duration, run_when, w_t_end, bogo,
                    keep_running, checks, ret >>

(* ------------------------------------------------------------------ *)
(* stress_workload_waste_time                                           *)
(* ------------------------------------------------------------------ *)
\* faulty variant: the comparison inverted
WasteContinueInverted(t, te) == t > te
\* the condition of every kernel loop: stress_time_now() < t_end
WasteContinue(t, te) == t < te

KernelPc(sel) ==
    CASE sel = 0 -> "w_case0"
      [] sel = 1 -> "w_case1"
      [] sel = 2 -> "w_case2"
      [] sel = 3 -> "w_case3"
      [] sel = 4 -> "w_case4"
      [] sel = 5 -> "w_case5"
      [] sel = 6 -> "w_case6"
      [] OTHER   -> "w_case7"

WastePcs == { "w_case0", "w_case1", "w_case2", "w_case3", "w_case4", "w_case5",
              "w_case6", "w_case7", "w_case7_inner" }

wasteUnchanged == << cfgVars, max_quanta, workload, memVars, bucket, value, rows, i,
                     offset, exVars, bogo, envVars >>

\* t_end = stress_time_now() + run_duration_sec; switch (stress_mwc8modn(8))
WasteEnter ==
    /\ pc = "waste"
    /\ \E t \in ClockSame :
         /\ now' = t
         /\ w_t_end' = t + run_duration
    /\ \E sel \in Mwc8modn(NumKernels) : pc' = KernelPc(sel)
    /\ UNCHANGED wasteUnchanged

\* cases 0, 1, 2, 3, 6: while (stress_time_now() < t_end) body; break;
WasteSimple ==
    /\ pc \in { "w_case0", "w_case1", "w_case2", "w_case3", "w_case6" }
    /\ \E t \in ClockReads(w_t_end) :
         /\ now' = t
         /\ pc' = IF WasteContinue(t, w_t_end) THEN pc ELSE "q_bogo"
    /\ UNCHANGED << w_t_end, wasteUnchanged >>

\* case 4: the math loop, with no break after it
WasteCase4 ==
    /\ pc = "w_case4"
    /\ \E t \in ClockReads(w_t_end) :
         /\ now' = t
         /\ pc' = IF WasteContinue(t, w_t_end) THEN pc ELSE "w_case5"
    /\ UNCHANGED << w_t_end, wasteUnchanged >>

\* case 5: while ((t = stress_time_now()) < t_end) val++; break;
WasteCase5 ==
    /\ pc = "w_case5"
    /\ \E t \in ClockReads(w_t_end) :
         /\ now' = t
         /\ pc' = IF WasteContinue(t, w_t_end) THEN pc ELSE "q_bogo"
    /\ UNCHANGED << w_t_end, wasteUnchanged >>

\* case 7: the mixed kernel's outer loop and its switch (stress_mwc8modn(7))
WasteCase7 ==
    /\ pc = "w_case7"
    /\ \E t \in ClockReads(w_t_end) :
         /\ now' = t
         /\ IF WasteContinue(t, w_t_end)
            THEN \E sub \in Mwc8modn(NumMixedKernels) :
                    pc' = IF sub = 4 THEN "w_case7_inner" ELSE "w_case7"
            ELSE pc' = "q_bogo"
    /\ UNCHANGED << w_t_end, wasteUnchanged >>

\* case 7, inner case 4: while ((t = stress_time_now()) < t_end) val++; break;
WasteCase7Inner ==
    /\ pc = "w_case7_inner"
    /\ \E t \in ClockReads(w_t_end) :
         /\ now' = t
         /\ pc' = IF WasteContinue(t, w_t_end) THEN pc ELSE "w_case7"
    /\ UNCHANGED << w_t_end, wasteUnchanged >>

(* ------------------------------------------------------------------ *)
(* stress_workload: the slice loop and shutdown                         *)
(* ------------------------------------------------------------------ *)
\* stress_continue(args); the model lets it hold for at most MaxSlices slices
StressContinue == keep_running /\ slices < MaxSlices

\* } while (stress_continue(args));
\* stress_workload_exercise has returned: its locals are dead and read as 0.
Continue ==
    /\ pc = "continue"
    /\ checks' = checks + 1
    /\ pc' = IF StressContinue THEN "exercise" ELSE "deinit"
    /\ i' = 0
    /\ offset' = 0
    /\ t_begin' = 0
    /\ t_end' = 0
    /\ run_duration' = 0
    /\ run_when' = 0
    /\ sleep_duration_ns' = 0
    /\ slept' = FALSE
    /\ UNCHANGED << cfgVars, max_quanta, workload, memVars, bucket, value, rows,
                    now, w_t_end, bogo, keep_running, slices, ex_ret, ret >>

\* if (args->instance == 0) stress_workload_bucket_report(&slice_offset_bucket)
Deinit ==
    /\ pc = "deinit"
    /\ \E instance \in { 0, 1 } :
         rows' = IF instance = 0 THEN BucketReport(bucket) ELSE rows
    /\ pc' = "release"
    /\ UNCHANGED << cfgVars, max_quanta, workload, memVars, bucket, value, i, offset,
                    now, exVars, w_t_end, bogo, envVars >>

\* munmap(buffer, buffer_len); free(workload); return EXIT_SUCCESS
Release ==
    /\ pc = "release"
    /\ buffer_mem' = "freed"
    /\ munmaps' = munmaps + 1
    /\ workload_mem' = "freed"
    /\ frees' = frees + 1
    /\ ret' = "EXIT_SUCCESS"
    /\ pc' = "done"
    /\ UNCHANGED << cfgVars, max_quanta, workload, bucket, value, rows, i, offset,
                    now, exVars, w_t_end, bogo, keep_running, slices, checks, ex_ret >>

\* the environment withdraws the continuation predicate (signal, time-out, ops limit)
StopRequest ==
    /\ keep_running
    /\ pc # "done"
    /\ keep_running' = FALSE
    /\ UNCHANGED << pc, cfgVars, max_quanta, workload, memVars, bucket, value, rows, i,
                    offset, now, exVars, w_t_end, bogo, slices, checks, ex_ret, ret >>

(* ------------------------------------------------------------------ *)
(* The whole program                                                    *)
(* ------------------------------------------------------------------ *)
\* slice_offset_bucket before stress_workload_bucket_init (never read)
NoBucket == [ width |-> 0, bucket |-> [ k \in 0 .. (NUM_BUCKETS - 1) |-> 0 ],
              overflow |-> 0 ]

InitLocals ==
    /\ max_quanta = 0
    /\ workload = << >>
    /\ workload_mem = "none"
    /\ buffer_mem = "none"
    /\ frees = 0
    /\ munmaps = 0
    /\ bucket = NoBucket
    /\ value = 0
    /\ rows = << >>
    /\ i = 0
    /\ offset = 0
    /\ now = 0
    /\ t_begin = 0
    /\ t_end = 0
    /\ run_duration = 0
    /\ run_when = 0
    /\ sleep_duration_ns = 0
    /\ slept = FALSE
    /\ w_t_end = 0
    /\ bogo = 0
    /\ keep_running = TRUE
    /\ slices = 0
    /\ checks = 0
    /\ ex_ret = "none"
    /\ ret = "none"

LoadChoices == { 30, 100 }

Init ==
    /\ pc = "start"
    /\ workload_load \in LoadChoices
    /\ workload_slice_us \in 1 .. MaxUs
    /\ workload_quanta_us \in 1 .. (MaxUs + 1)
    /\ workload_dist \in Dists
    /\ InitLocals

Next ==
    \/ Validate
    \/ CallocOk
    \/ CallocFail
    \/ MmapOk
    \/ MmapFail
    \/ BucketInitCall
    \/ ExerciseBegin
    \/ SampleRandom1
    \/ SampleRandom2
    \/ SampleRandom3
    \/ ClusterOffset
    \/ ClusterBurst
    \/ ClusterRest
    \/ SortQuanta
    \/ SliceStart
    \/ QuantumWait
    \/ QuantumAccount
    \/ WasteEnter
    \/ WasteSimple
    \/ WasteCase4
    \/ WasteCase5
    \/ WasteCase7
    \/ WasteCase7Inner
    \/ QuantumBogo
    \/ SliceEnd
    \/ Continue
    \/ Deinit
    \/ Release
    \/ StopRequest

Spec == Init /\ [][Next]_vars

(* ------------------------------------------------------------------ *)
(* Properties of the whole program (specification Spec)                 *)
(* ------------------------------------------------------------------ *)
SamplePcs == { "exercise", "sample", "cluster_offset", "cluster_burst",
               "cluster_rest", "slice_start" }
QuantumPcs == { "q_wait", "q_account", "waste", "q_bogo" } \cup WastePcs
SlicePcs == SamplePcs \cup QuantumPcs
ShutdownPcs == { "deinit", "release" }

\* C2: after k completed slices the operation counter and the histogram total both
\* equal k * quanta_count; inside a slice each executed quantum has added exactly
\* one sample (first) and exactly one operation (after the kernel).
C2_OneSampleOneOpPerQuantum ==
    LET done == slices * max_quanta
        total == BucketTotal(bucket)
    IN /\ pc \in ({ "continue" } \cup ShutdownPcs \cup SamplePcs)
            => bogo = done /\ total = done
       /\ pc = "done" /\ ret = "EXIT_SUCCESS" => bogo = done /\ total = done
       /\ pc \in { "q_wait", "q_account" } => bogo = done + i /\ total = done + i
       /\ pc \in ({ "waste", "q_bogo" } \cup WastePcs)
            => bogo = done + i /\ total = done + i + 1

C2_Witness ==
    /\ pc = "continue"
    /\ slices = 2
    /\ max_quanta = 2
    /\ bogo = 4
    /\ BucketTotal(bucket) = 4

\* C4: quanta_us > slice_us returns EXIT_FAILURE with nothing allocated, no slice
\* run and no operation signalled; otherwise the run proceeds with
\* max_quanta = max(1, slice_us / quanta_us) >= 1, and a slice is only ever executed
\* with quanta_us <= slice_us.
C4_ConfigValidation ==
    LET q == workload_slice_us \div workload_quanta_us IN
    /\ workload_quanta_us > workload_slice_us
         => /\ pc \in { "start", "done" }
            /\ pc = "done" => ret = "EXIT_FAILURE"
            /\ workload_mem = "none" /\ buffer_mem = "none"
            /\ slices = 0 /\ bogo = 0 /\ BucketTotal(bucket) = 0
    /\ workload_quanta_us <= workload_slice_us /\ pc # "start"
         => /\ ret # "EXIT_FAILURE"
            /\ max_quanta = (IF q > 1 THEN q ELSE 1)
            /\ max_quanta >= 1
    /\ pc \in SlicePcs => workload_quanta_us <= workload_slice_us /\ max_quanta >= 1
    /\ MaxQuantaOf(100000, 1000) = 100

C4_Witness ==
    /\ pc = "done"
    /\ ret = "EXIT_FAILURE"
    /\ workload_quanta_us > workload_slice_us

\* C5: the slice loop is left only from the loop condition, and only when the
\* continuation predicate is false there; a slice that has started returns only after
\* all max_quanta quanta were recorded and signalled, whatever the predicate did
\* meanwhile; stress_workload_exercise returns nothing but EXIT_SUCCESS.
C5_StopOnlyBetweenSlices ==
    [][ /\ (pc \in (SlicePcs \cup { "continue" }) /\ pc' \notin (SlicePcs \cup { "continue" }))
            => (pc = "continue" /\ pc' = "deinit" /\ ~ StressContinue)
        /\ (pc = "continue" /\ pc' # pc /\ StressContinue) => pc' = "exercise"
        /\ (pc # "continue" /\ pc' = "continue")
            => /\ i = max_quanta
               /\ bogo' = slices' * max_quanta
               /\ BucketTotal(bucket') = slices' * max_quanta
               /\ ex_ret' = "EXIT_SUCCESS"
        /\ (pc \in QuantumPcs /\ pc' \notin QuantumPcs) => pc' = "continue"
      ]_vars

C5_Witness ==
    /\ pc = "q_account"
    /\ i = 1
    /\ max_quanta = 2
    /\ ~ keep_running
    /\ checks = 0

\* C6: on every exit path each acquired resource was released exactly once and
\* none is held; both allocation failures return EXIT_NO_RESOURCE (neither
\* EXIT_SUCCESS nor EXIT_FAILURE) without running a slice, the mmap failure after
\* freeing the quantum array; the normal shutdown releases both.
C6_ResourcesReleased ==
    /\ frees <= 1 /\ munmaps <= 1
    /\ (workload_mem = "freed") = (frees = 1)
    /\ (buffer_mem = "freed") = (munmaps = 1)
    /\ pc = "done"
         => /\ workload_mem # "held" /\ buffer_mem # "held"
            /\ ret \in { "EXIT_FAILURE", "EXIT_NO_RESOURCE", "EXIT_SUCCESS" }
    /\ pc = "done" /\ ret = "EXIT_NO_RESOURCE"
         => /\ slices = 0 /\ bogo = 0
            /\ buffer_mem = "none" /\ munmaps = 0
            /\ workload_mem \in { "none", "freed" }
            /\ ret # "EXIT_SUCCESS" /\ ret # "EXIT_FAILURE"
    /\ pc = "done" /\ ret = "EXIT_SUCCESS"
         => workload_mem = "freed" /\ buffer_mem = "freed" /\ slices >= 1
    /\ pc \in (SlicePcs \cup { "continue" } \cup ShutdownPcs)
         => workload_mem = "held" /\ buffer_mem = "held"

C6_Witness ==
    /\ pc = "done"
    /\ ret = "EXIT_NO_RESOURCE"
    /\ workload_mem = "freed"
    /\ frees = 1
    /\ buffer_mem = "none"

\* C10: with the configuration valid and both allocations made, one complete slice
\* runs before stress_continue is evaluated for the first time; so at least
\* max_quanta >= 1 operations are signalled even if the predicate was false all
\* along, and a report that is reached has a total of at least max_quanta > 0.
C10_FirstSliceUnconditional ==
    /\ pc = "continue" /\ checks = 0 => slices = 1
    /\ checks >= 1 => slices >= 1 /\ bogo >= max_quanta /\ max_quanta >= 1
    /\ (pc \in ShutdownPcs \/ (pc = "done" /\ ret = "EXIT_SUCCESS"))
         => checks >= 1 /\ bogo >= max_quanta /\ max_quanta >= 1
    /\ pc \in ShutdownPcs => BucketTotal(bucket) >= max_quanta
    /\ rows # << >>
         => /\ BucketTotal(bucket) >= max_quanta
            /\ BucketTotal(bucket) > 0
            /\ \A r \in DOMAIN rows : rows[r].finite

C10_Witness ==
    /\ pc = "release"
    /\ rows # << >>
    /\ ~ keep_running
    /\ checks = 1
    /\ slices = 1
    /\ bogo = max_quanta

(* ------------------------------------------------------------------ *)
(* The sampler alone (specification SpecSample)                         *)
(* ------------------------------------------------------------------ *)
\* the state at the first call of stress_workload_exercise: configuration
\* validated, both allocations made, histogram initialised
InitAfterSetup ==
    /\ pc = "exercise"
    /\ max_quanta = MaxQuantaOf(workload_slice_us, workload_quanta_us)
    /\ workload = [ k \in 1 .. max_quanta |-> 0 ]
    /\ workload_mem = "held"
    /\ buffer_mem = "held"
    /\ frees = 0
    /\ munmaps = 0
    /\ bucket = BucketInit(workload_slice_us)
    /\ value = 0
    /\ rows = << >>
    /\ i = 0
    /\ offset = 0
    /\ now = 0
    /\ t_begin = 0
    /\ t_end = 0
    /\ run_duration = 0
    /\ run_when = 0
    /\ sleep_duration_ns = 0
    /\ slept = FALSE
    /\ w_t_end = 0
    /\ bogo = 0
    /\ keep_running = TRUE
    /\ slices = 0
    /\ checks = 0
    /\ ex_ret = "none"
    /\ ret = "none"

InitSample ==
    /\ workload_load = 30
    /\ workload_slice_us \in 1 .. MaxSampleUs
    /\ workload_quanta_us \in 1 .. workload_slice_us
    /\ workload_dist \in Dists
    /\ InitAfterSetup

NextSample ==
    \/ ExerciseBegin
    \/ SampleRandom1
    \/ SampleRandom2
    \/ SampleRandom3
    \/ ClusterOffset
    \/ ClusterBurst
    \/ ClusterRest
    \/ SortQuanta

SpecSample == InitSample /\ [][NextSample]_vars

\* [0, slice_us - quanta_us), or the constant 0 when slice_us = quanta_us
InRange(w) ==
    IF workload_slice_us = workload_quanta_us THEN w = 0
    ELSE 0 <= w /\ w < workload_slice_us - workload_quanta_us

\* [offset0, offset0 + quanta_us)
InBurst(w) == offset <= w /\ w < offset + workload_quanta_us

SamplerPcs == { "sample", "cluster_offset", "cluster_burst", "cluster_rest",
                "slice_start" }

\* C1 as stated: every offset of the quantum array, Cluster burst offsets included,
\* lies in [0, slice_us - quanta_us), or is 0 when slice_us = quanta_us.
C1_AllOffsetsInDrawRange ==
    pc \in SamplerPcs => \A k \in DOMAIN workload : InRange(workload[k])

\* C1 amended: Random1, Random2, Random3 and the Cluster background offsets lie in
\* [0, slice_us - quanta_us) (0 when slice_us = quanta_us); a Cluster burst offset
\* lies in [offset0, offset0 + quanta_us) with offset0 in [0, slice_us / 2)
\* (offset0 = 0 when slice_us < 4) and below slice_us, and need not be below
\* slice_us - quanta_us.
C1_OffsetsInRangeOrBurst ==
    pc \in SamplerPcs =>
      IF workload_dist # STRESS_WORKLOAD_DIST_CLUSTER
      THEN \A k \in DOMAIN workload : InRange(workload[k])
      ELSE /\ 0 <= offset
           /\ offset < (IF workload_slice_us \div 2 < 2 THEN 1
                        ELSE workload_slice_us \div 2)
           /\ \A k \in DOMAIN workload :
                /\ InRange(workload[k]) \/ InBurst(workload[k])
                /\ 0 <= workload[k] /\ workload[k] < workload_slice_us
           /\ pc \in { "cluster_burst", "cluster_rest" } =>
                \A k \in DOMAIN workload :
                   /\ (k <= i /\ k <= (2 * max_quanta) \div 3) => InBurst(workload[k])
                   /\ k > (2 * max_quanta) \div 3 => InRange(workload[k])

\* a sorted Cluster array holding a burst offset at or beyond slice_us - quanta_us
C1_Witness ==
    /\ pc = "slice_start"
    /\ workload_dist = STRESS_WORKLOAD_DIST_CLUSTER
    /\ workload_slice_us > workload_quanta_us
    /\ \E k \in DOMAIN workload :
          /\ workload[k] >= workload_slice_us - workload_quanta_us
          /\ InBurst(workload[k])

(* ------------------------------------------------------------------ *)
(* One slice with its timing (specification SpecSlice)                  *)
(* ------------------------------------------------------------------ *)
InitSlice ==
    /\ workload_load \in { 1, 100 }
    /\ workload_slice_us = SliceTimingUs
    /\ workload_quanta_us = SliceTimingUs \div 2
    /\ workload_dist \in Dists
    /\ InitAfterSetup

NextSlice ==
    \/ ExerciseBegin
    \/ SampleRandom1
    \/ SampleRandom2
    \/ SampleRandom3
    \/ ClusterOffset
    \/ ClusterBurst
    \/ ClusterRest
    \/ SortQuanta
    \/ SliceStart
    \/ QuantumWait
    \/ QuantumAccount
    \/ WasteEnter
    \/ WasteSimple
    \/ WasteCase4
    \/ WasteCase5
    \/ WasteCase7
    \/ WasteCase7Inner
    \/ QuantumBogo
    \/ SliceEnd

SpecSlice == InitSlice /\ [][NextSlice]_vars

IsSorted(s) == \A k \in 1 .. (Len(s) - 1) : s[k] <= s[k + 1]

\* C9: slice_start and slice_end are taken after sampling and sorting; each quantum,
\* in ascending offset order, is slept for exactly when target - now > 10 us (the
\* sleep lasting at least target - now) and otherwise not at all; now - slice_start
\* is recorded before the kernel runs and before the operation is signalled; after
\* the last quantum the executor sleeps exactly when slice_end - now > 100 ns.
C9_SleepThresholds ==
    [][ /\ (pc = "slice_start" /\ pc' = "q_wait")
            => /\ IsSorted(workload)
               /\ t_begin' = now'
               /\ t_end' = t_begin' + workload_slice_us * NsPerUs
        /\ (pc = "q_wait" /\ pc' = "q_account")
            => /\ IsSorted(workload)
               /\ run_when' = t_begin + workload[i + 1] * NsPerUs
               /\ sleep_duration_ns' <= run_when' - now
               /\ slept' = (sleep_duration_ns' > QuantumSleepThresholdNs)
               /\ IF slept' THEN now' >= run_when'
                  ELSE now' = run_when' - sleep_duration_ns'
        /\ (pc = "q_account" /\ pc' # pc)
            => /\ value' = now' - t_begin
               /\ BucketTotal(bucket') = BucketTotal(bucket) + 1
               /\ bogo' = bogo
               /\ pc' = "waste"
        /\ (pc \in ({ "waste" } \cup WastePcs))
            => BucketTotal(bucket) = bogo + 1 /\ bogo' = bogo
        /\ bogo' # bogo
            => pc = "q_bogo" /\ bogo' = bogo + 1 /\ BucketTotal(bucket) = bogo + 1
        /\ (pc = "q_wait" /\ pc' = "continue")
            => /\ i = max_quanta
               /\ sleep_duration_ns' <= t_end - now
               /\ slept' = (sleep_duration_ns' > SliceSleepThresholdNs)
               /\ IF slept' THEN now' >= t_end
                  ELSE now' = t_end - sleep_duration_ns'
      ]_vars

\* the second quantum was slept for: its target was more than 10 us away
C9_Witness ==
    /\ pc = "q_account"
    /\ i = 1
    /\ slept
    /\ sleep_duration_ns > QuantumSleepThresholdNs
    /\ now >= run_when

(* ------------------------------------------------------------------ *)
(* One kernel invocation (specifications SpecKernel, LiveKernel)        *)
(* ------------------------------------------------------------------ *)
KernelLoads == { 1, 30, 100 }

\* the state at the first call of stress_workload_waste_time: one quantum per
\* slice, at offset 0, accounted with the clock not having moved
InitKernel ==
    /\ pc = "waste"
    /\ workload_load \in KernelLoads
    /\ workload_quanta_us \in 1 .. MaxKernelUs
    /\ workload_slice_us = workload_quanta_us
    /\ workload_dist \in { STRESS_WORKLOAD_DIST_CLUSTER }
    /\ max_quanta = 1
    /\ workload = << 0 >>
    /\ workload_mem = "held"
    /\ buffer_mem = "held"
    /\ frees = 0
    /\ munmaps = 0
    /\ bucket = BucketAccount(BucketInit(workload_slice_us), 0)
    /\ value = 0
    /\ rows = << >>
    /\ i = 0
    /\ offset = 0
    /\ now = 0
    /\ t_begin = 0
    /\ t_end = workload_slice_us * NsPerUs
    /\ run_duration = (workload_quanta_us * NsPerUs * workload_load) \div 100
    /\ run_when = 0
    /\ sleep_duration_ns = 0
    /\ slept = FALSE
    /\ w_t_end = 0
    /\ bogo = 0
    /\ keep_running = TRUE
    /\ slices = 0
    /\ checks = 0
    /\ ex_ret = "none"
    /\ ret = "none"

NextKernel ==
    \/ WasteEnter
    \/ WasteSimple
    \/ WasteCase4
    \/ WasteCase5
    \/ WasteCase7
    \/ WasteCase7Inner

\* Fairness: a kernel loop keeps being scheduled, and the clock keeps advancing.
\* A read that finds the clock unmoved changes nothing; weak fairness of the
\* kernel steps therefore says that the clock eventually moves on.
LiveKernel == InitKernel /\ [][NextKernel]_vars /\ WF_vars(NextKernel)

\* C7: no kernel returns while the clock is below its deadline, selector 4 goes on
\* from the math loop into the counter-increment loop, and with the clock advancing
\* every invocation returns.
C7_KernelRunsToDeadline ==
    /\ [][ /\ (pc \in WastePcs /\ pc' = "q_bogo") => now' >= w_t_end
           /\ (pc \in WastePcs /\ pc' # pc) => now' >= w_t_end \/ pc = "w_case7"
           /\ (pc = "w_case4" /\ pc' # pc) => pc' = "w_case5"
           /\ now' >= now
         ]_vars
    /\ [](pc = "q_bogo" => now >= w_t_end /\ w_t_end > 0)
    /\ <>(pc = "q_bogo")

C7_Witness ==
    /\ pc = "q_bogo"
    /\ w_t_end > 0
    /\ now >= w_t_end

(* ------------------------------------------------------------------ *)
(* The histogram alone (specification SpecBucket)                       *)
(* ------------------------------------------------------------------ *)
\* arguments of account: both ends of every bucket, of two ranges beyond the last
\* bucket and of two ranges below zero
AccountValues(width) ==
    { k * width + e : k \in -2 .. (NUM_BUCKETS + 1), e \in { 0, width - 1 } }

InitBucket ==
    /\ pc = "b_init"
    /\ workload_load = 30
    /\ workload_slice_us \in 1 .. MaxBasisUs
    /\ workload_quanta_us = workload_slice_us
    /\ workload_dist = STRESS_WORKLOAD_DIST_CLUSTER
    /\ InitLocals

bucketUnchanged == << cfgVars, max_quanta, workload, memVars, i, offset, now, exVars,
                      w_t_end, bogo, envVars >>

\* stress_workload_bucket_init(bucket, width)
BInit ==
    /\ pc = "b_init"
    /\ bucket' = BucketInit(workload_slice_us)
    /\ pc' = "b_ready"
    /\ UNCHANGED << value, rows, bucketUnchanged >>

\* stress_workload_bucket_account(bucket, value)
BAccount ==
    /\ pc = "b_ready"
    /\ BucketTotal(bucket) < MaxAccounts
    /\ \E v \in AccountValues(bucket.width) :
         /\ value' = v
         /\ bucket' = BucketAccount(bucket, v)
    /\ pc' = "b_accounted"
    /\ UNCHANGED << rows, bucketUnchanged >>

\* the call has returned
BReturn ==
    /\ pc \in { "b_accounted", "b_reported" }
    /\ value' = 0
    /\ rows' = << >>
    /\ pc' = "b_ready"
    /\ UNCHANGED << bucket, bucketUnchanged >>

\* stress_workload_bucket_report(bucket)
BReport ==
    /\ pc = "b_ready"
    /\ rows' = BucketReport(bucket)
    /\ pc' = "b_reported"
    /\ UNCHANGED << bucket, value, bucketUnchanged >>

NextBucket == BInit \/ BAccount \/ BReturn \/ BReport

SpecBucket == InitBucket /\ [][NextBucket]_vars

\* C3: with width = width_basis / 20, account(v) adds one to exactly one counter and
\* changes nothing else: counts[k] for v in [k*width, (k+1)*width), 0 <= k < 20,
\* overflow for v >= 20*width, counts[0] for negative v.
C3_AccountOneCounter ==
    [][ (pc = "b_ready" /\ pc' = "b_accounted") =>
          LET v == value'
              w == bucket.width
          IN /\ NUM_BUCKETS * w = workload_slice_us * NsPerUs
             /\ bucket'.width = w
             /\ \/ /\ v < 0
                   /\ bucket' = [ bucket EXCEPT !.bucket[0] = @ + 1 ]
                \/ /\ v >= NUM_BUCKETS * w
                   /\ bucket' = [ bucket EXCEPT !.overflow = @ + 1 ]
                \/ \E k \in 0 .. (NUM_BUCKETS - 1) :
                      /\ k * w <= v /\ v < (k + 1) * w
                      /\ bucket' = [ bucket EXCEPT !.bucket[k] = @ + 1 ]
      ]_vars

\* a negative value was accounted to counts[0]
C3_Witness ==
    /\ pc = "b_accounted"
    /\ value < 0
    /\ bucket.bucket[0] = 1
    /\ BucketTotal(bucket) = 1

\* C8: a report requested with no sample recorded divides nothing by a zero total.
C8_ReportGuardsZeroTotal ==
    pc = "b_reported" /\ BucketTotal(bucket) = 0
        => \A r \in DOMAIN rows : rows[r].finite

====
